---- MODULE Spec2Model ----
(***************************************************************************)
(* avm-version-check: the "process" command of src/main.go.                *)
(*                                                                         *)
(* The model covers the worker pool of the process Action (recordChan,     *)
(* resultChan, the WaitGroup, the closer goroutine and the gathering loop), *)
(* processRecord with its retry loop and scratch directories, the          *)
(* constraint evaluation of checkVersionConstraints (hashicorp/go-version  *)
(* as the code calls it) and summarizeResults.                             *)
(*                                                                         *)
(* Strings that the code parses (versions, constraint expressions) are     *)
(* sequences of one-character strings.  Error texts are sequences of text  *)
(* fragments, "" being the empty sequence.                                 *)
(***************************************************************************)
EXTENDS Integers, Sequences, FiniteSets, Bags, TLC

\* ------------------------------------------------------------------------
\* Bounds of the model
\* ------------------------------------------------------------------------
MaxItems == 2

MaxWorkers == 2

MaxProviders == 2

\* ------------------------------------------------------------------------
\* Strings
\* ------------------------------------------------------------------------
DigitSeq == <<"0", "1", "2", "3", "4", "5", "6", "7", "8", "9">>

IsDigit(c) == \E d \in 1..Len(DigitSeq) : DigitSeq[d] = c

DigitVal(c) == (CHOOSE d \in 1..Len(DigitSeq) : DigitSeq[d] = c) - 1

RECURSIVE Atoi(_)
Atoi(s) ==
    IF s = <<>> THEN 0
    ELSE 10 * Atoi(SubSeq(s, 1, Len(s) - 1)) + DigitVal(s[Len(s)])

RECURSIVE Split(_, _)
Split(s, sep) ==
    IF \E i \in 1..Len(s) : s[i] = sep
    THEN LET i == CHOOSE k \in 1..Len(s) :
                      s[k] = sep /\ \A j \in 1..(k - 1) : s[j] # sep
         IN <<SubSeq(s, 1, i - 1)>> \o Split(SubSeq(s, i + 1, Len(s)), sep)
    ELSE <<s>>

RECURSIVE TrimLeft(_)
TrimLeft(s) == IF s # <<>> /\ s[1] = " " THEN TrimLeft(Tail(s)) ELSE s

RECURSIVE TrimRight(_)
TrimRight(s) ==
    IF s # <<>> /\ s[Len(s)] = " " THEN TrimRight(SubSeq(s, 1, Len(s) - 1)) ELSE s

TrimSpace(s) == TrimLeft(TrimRight(s))

\* a fixed text of the program, character by character, to find it inside
\* text that was copied from a repository
Spelled(tag) ==
    IF tag = "failed to clone repo"
    THEN <<"f", "a", "i", "l", "e", "d", " ", "t", "o", " ", "c", "l", "o", "n",
           "e", " ", "r", "e", "p", "o">>
    ELSE <<tag>>

\* strings.Contains on an error text: the tag is one of its fragments, or it
\* is spelled out by consecutive one-character fragments
Contains(text, tag) ==
    \/ \E i \in 1..Len(text) : text[i] = tag
    \/ \E i \in 1..Len(text) :
          /\ i + Len(Spelled(tag)) - 1 <= Len(text)
          /\ SubSeq(text, i, i + Len(Spelled(tag)) - 1) = Spelled(tag)

\* ------------------------------------------------------------------------
\* hashicorp/go-version, as used by checkVersionConstraints
\* ------------------------------------------------------------------------
\* version.NewVersion: optional "v", dot-separated decimal segments, padded
\* with zeros to three segments; si is the number of segments written.
\* (Pre-release and metadata suffixes are outside the modelled alphabet.)
PadSegments(segs) ==
    IF Len(segs) >= 3 THEN segs
    ELSE [i \in 1..3 |-> IF i <= Len(segs) THEN segs[i] ELSE 0]

NewVersion(s) ==
    LET body  == IF s # <<>> /\ s[1] = "v" THEN Tail(s) ELSE s
        parts == Split(body, ".")
        wellFormed ==
            \A i \in 1..Len(parts) :
                /\ parts[i] # <<>>
                /\ \A j \in 1..Len(parts[i]) : IsDigit(parts[i][j])
    IN IF wellFormed
       THEN [ok |-> TRUE,
             segments |-> PadSegments([i \in 1..Len(parts) |-> Atoi(parts[i])]),
             si |-> Len(parts)]
       ELSE [ok |-> FALSE, segments |-> <<>>, si |-> 0]

Segment(segs, i) == IF i <= Len(segs) THEN segs[i] ELSE 0

\* Version.Compare on the segments: -1, 0 or 1
RECURSIVE CompareFrom(_, _, _)
CompareFrom(a, b, i) ==
    IF i > Len(a) /\ i > Len(b) THEN 0
    ELSE IF Segment(a, i) < Segment(b, i) THEN -1
    ELSE IF Segment(a, i) > Segment(b, i) THEN 1
    ELSE CompareFrom(a, b, i + 1)

Compare(v, c) == CompareFrom(v.segments, c.segments, 1)

\* constraintPessimistic
constraintPessimistic(v, c) ==
    LET cs == Len(c.segments)
    IN /\ ~(Compare(v, c) = -1)
       /\ ~(cs > Len(v.segments))
       /\ \A i \in 1..(c.si - 1) : v.segments[i] = c.segments[i]
       /\ ~(c.segments[cs] > v.segments[cs])

\* the constraintOperators table
ConstraintOperators ==
    {<<>>, <<"=">>, <<"!", "=">>, <<">">>, <<"<">>, <<">", "=">>,
     <<"<", "=">>, <<"~", ">">>}

ConstraintF(op, v, c) ==
    CASE op = <<>>           -> Compare(v, c) = 0
      [] op = <<"=">>        -> Compare(v, c) = 0
      [] op = <<"!", "=">>   -> Compare(v, c) # 0
      [] op = <<">">>        -> Compare(v, c) = 1
      [] op = <<"<">>        -> Compare(v, c) = -1
      [] op = <<">", "=">>   -> Compare(v, c) >= 0
      [] op = <<"<", "=">>   -> Compare(v, c) <= 0
      [] op = <<"~", ">">>   -> constraintPessimistic(v, c)

\* parseSingle: ^\s*(operator)\s*(version)\s*$
ParseSingle(s) ==
    LET t == TrimSpace(s)
        cuts == {k \in 0..Len(t) :
                    /\ SubSeq(t, 1, k) \in ConstraintOperators
                    /\ NewVersion(TrimLeft(SubSeq(t, k + 1, Len(t)))).ok}
    IN IF cuts = {}
       THEN [ok |-> FALSE, op |-> <<>>, check |-> NewVersion(<<>>)]
       ELSE LET k == CHOOSE k \in cuts : TRUE
            IN [ok |-> TRUE, op |-> SubSeq(t, 1, k),
                check |-> NewVersion(TrimLeft(SubSeq(t, k + 1, Len(t))))]

\* version.NewConstraint: the comma-separated parts, each parsed on its own
NewConstraint(s) ==
    LET vs == Split(s, ",")
        cs == [i \in 1..Len(vs) |-> ParseSingle(vs[i])]
    IN [ok |-> \A i \in 1..Len(cs) : cs[i].ok, constraints |-> cs]

\* Constraints.Check: every constraint admits the version
Check(c, ver) ==
    \A i \in 1..Len(c.constraints) :
        ConstraintF(c.constraints[i].op, ver, c.constraints[i].check)

\* checkVersionConstraints(currentProviderVersion, constraint) (bool, error);
\* the error texts quote the string that did not parse
checkVersionConstraints(currentProviderVersion, constraint) ==
    LET ver == NewVersion(currentProviderVersion)
        c   == NewConstraint(constraint)
    IN IF ~ver.ok
       THEN [valid |-> FALSE,
             err |-> <<"failed to parse version '">> \o currentProviderVersion
                     \o <<"': Malformed version: ">> \o currentProviderVersion]
       ELSE IF ~c.ok
       THEN [valid |-> FALSE,
             err |-> <<"failed to parse constraint '">> \o constraint
                     \o <<"': Malformed constraint: ">> \o constraint]
       ELSE [valid |-> Check(c, ver), err |-> <<>>]

\* ------------------------------------------------------------------------
\* Configuration and data types
\* ------------------------------------------------------------------------
\* providersToCheck: tracked provider -> minimum version
providersToCheck ==
    [n \in {"azurerm", "azapi"} |->
        IF n = "azurerm" THEN <<"4", ".", "0", ".", "0">>
                         ELSE <<"2", ".", "0", ".", "0">>]

\* the retry loop's limit: for attempt := 1; attempt <= 3; attempt++
MaxAttempts == 3

\* CSVRecord: the RepoURL stands for the whole row (0 is the zero value)
CSVRecord(url) == [RepoURL |-> url]

ZeroRecord == CSVRecord(0)

\* Result{CSVRecord: record}; "" and nil are the empty sequence/function
NewResult(record) ==
    [CSVRecord |-> record, Providers |-> <<>>, Compatibility |-> <<>>,
     LastCommitDate |-> <<>>, LastCommitAuthor |-> <<>>, Error |-> <<>>]

\* the zero Result that make([]Result, len(records)) fills the slice with
ZeroResult == NewResult(ZeroRecord)

\* ------------------------------------------------------------------------
\* The outside world: what each repository does when it is processed
\* ------------------------------------------------------------------------
\* constraint expressions that modules declare
ExprGe400 == <<">", "=", "4", ".", "0", ".", "0">>

ExprPess30 == <<"~", ">", "3", ".", "0">>

ExprPess40 == <<"~", ">", " ", "4", ".", "0">>

ExprPess20 == <<"~", ">", " ", "2", ".", "0">>

ExprRange == <<">", "=", " ", "3", ".", "0", ",", " ", "<", " ", "5", ".", "0">>

ExprBad == <<"n", "o", "t", "-", "a", "-", "v", "e", "r", "s", "i", "o", "n">>

Expressions == {ExprGe400, ExprPess30, ExprPess40, ExprPess20, ExprRange, ExprBad}

ProviderNames == {"azurerm", "azapi", "random"}

PV(name, expr) == [ProviderName |-> name, Version |-> expr]

\* declared requirements: any expression for a tracked provider, one for another
ProviderVersion ==
    {PV(n, e) : n \in {"azurerm", "azapi"}, e \in Expressions}
    \cup {PV("random", ExprPess30)}

ProviderLists == UNION {[1..n -> ProviderVersion] : n \in 0..MaxProviders}

\* outcome of one cloneRepo call
CloneOutcomes == {"ok", "gitfail", "mkdirfail"}

\* per attempt outcomes of the three possible cloneRepo calls
CloneScripts == [1..MaxAttempts -> CloneOutcomes]

Succeeds(script) == \E a \in 1..MaxAttempts : script[a] = "ok"

\* git log results: failure, or a commit date <<year, month, day>> and author
NoCommit == [ok |-> FALSE, date |-> <<>>, author |-> <<>>]

CommitDates == {<<2024, 2, 28>>}

Commits ==
    {NoCommit} \cup {[ok |-> TRUE, date |-> d, author |-> <<"a">>] : d \in CommitDates}

Profile(script, parseOk, providers, commit) ==
    [clone |-> script, parseOk |-> parseOk, providers |-> providers,
     commit |-> commit]

\* every behaviour of one repository (fields a run cannot reach are fixed)
Profiles ==
    {Profile(s, FALSE, <<>>, NoCommit) : s \in CloneScripts}
    \cup {Profile(s, TRUE, <<>>, c) :
            s \in {t \in CloneScripts : Succeeds(t)}, c \in Commits}
    \cup {Profile(s, TRUE, p, c) :
            s \in {[a \in 1..MaxAttempts |-> "ok"],
                   [a \in 1..MaxAttempts |-> IF a < MaxAttempts THEN "gitfail" ELSE "ok"]},
            p \in ProviderLists, c \in Commits}

\* the repositories the worker pool is exercised with: one that cannot be
\* cloned, one that is processed fully, one whose constraint cannot be
\* evaluated, one whose history cannot be read
PoolProfiles ==
    <<Profile([a \in 1..MaxAttempts |-> IF a = 2 THEN "gitfail" ELSE "mkdirfail"],
              FALSE, <<>>, NoCommit),
      Profile([a \in 1..MaxAttempts |-> "ok"], TRUE,
              <<PV("azapi", ExprPess30)>>,
              [ok |-> TRUE, date |-> <<2024, 2, 28>>, author |-> <<"a">>]),
      Profile([a \in 1..MaxAttempts |-> "ok"], TRUE,
              <<PV("azurerm", ExprBad)>>, NoCommit),
      Profile([a \in 1..MaxAttempts |-> "ok"], TRUE,
              <<PV("azurerm", ExprGe400)>>, NoCommit)>>

\* the rows point at consecutive repositories of that list, from any start
PoolWorlds(urls) ==
    {[u \in urls |-> PoolProfiles[((u + k) % Len(PoolProfiles)) + 1]] :
        k \in 1..Len(PoolProfiles)}

\* an expression that is no constraint and reads like one of the program's texts
ExprTag ==
    <<"f", "a", "i", "l", "e", "d", " ", "t", "o", " ", "c", "l", "o", "n", "e",
      " ", "r", "e", "p", "o">>

\* commit dates around the six-month thresholds of Nows
BoundaryDates ==
    {<<2024, 3, 1>>, <<2024, 3, 2>>, <<2024, 3, 3>>,
     <<2024, 3, 14>>, <<2024, 3, 15>>, <<2024, 3, 16>>,
     <<2024, 9, 30>>, <<2024, 10, 1>>, <<2024, 10, 2>>}

\* evaluation times: mid-month, a month end whose day does not exist six
\* months earlier, and one whose threshold lies in the year before
Nows == {<<2024, 9, 15>>, <<2024, 8, 31>>, <<2025, 3, 31>>}

\* the repositories summarizeResults is exercised with
SummaryProfiles ==
    {Profile([a \in 1..MaxAttempts |-> "gitfail"], FALSE, <<>>, NoCommit),
     Profile([a \in 1..MaxAttempts |-> "ok"], FALSE, <<>>, NoCommit)}
    \cup {Profile([a \in 1..MaxAttempts |-> "ok"], TRUE, p, c) :
            p \in {<<>>,
                   <<PV("azurerm", ExprPess30)>>,
                   <<PV("azurerm", ExprGe400)>>,
                   <<PV("azapi", ExprTag)>>,
                   <<PV("azurerm", ExprPess30), PV("azapi", ExprTag)>>},
            c \in {NoCommit} \cup {[ok |-> TRUE, date |-> d, author |-> <<"a">>] :
                                      d \in BoundaryDates}}

\* the evaluation time of summarizeResults
Today == <<2024, 9, 1>>

\* ------------------------------------------------------------------------
\* State
\* ------------------------------------------------------------------------
VARIABLES
    records,      \* the rows readCSV returned
    world,        \* RepoURL -> Profile: what the repository does
    now,          \* time.Now() of summarizeResults
    numWorkers,   \* the --workers flag
    mpc,          \* position of the process Action
    spawned,      \* i of the worker-starting loop
    enqueued,     \* rows sent to recordChan so far
    recordChan, recordClosed,
    resultChan, resultClosed,
    wg,           \* the WaitGroup counter
    closer,       \* position of the goroutine that closes resultChan
    results, index,
    bar,          \* progress ticks
    wk,           \* worker -> its position and locals
    tempDirs,     \* scratch directories that exist on disk
    trace,        \* RepoURL -> calls made for that row (history)
    completed,    \* RepoURLs in the order their Results were sent (history)
    summary       \* the counts summarizeResults returned

vars ==
    <<records, world, now, numWorkers, mpc, spawned, enqueued, recordChan,
      recordClosed, resultChan, resultClosed, wg, closer, results, index, bar,
      wk, tempDirs, trace, completed, summary>>

N == Len(records)

Workers == 1..MaxWorkers

URLs == 1..MaxItems

\* (mutant) a queue one place too small for the rows
RecordChanCapShort(recs) == IF Len(recs) > 0 THEN Len(recs) - 1 ELSE 0

\* make(chan CSVRecord, len(records))
RecordChanCap(recs) == Len(recs)

\* make(chan Result, len(records))
ResultChanCap(recs) == Len(recs)

\* locals of a worker goroutine that is not inside processRecord
IdleLocals(pc) ==
    [pc |-> pc, record |-> ZeroRecord, attempt |-> 0, dir |-> <<>>,
     repoPath |-> <<>>, err |-> <<>>, deferred |-> FALSE, providers |-> <<>>,
     next |-> 0, res |-> ZeroResult]

Event(ev, arg) == [ev |-> ev, arg |-> arg]

Log(url, ev, arg) == [trace EXCEPT ![url] = Append(@, Event(ev, arg))]

NoSummary == [unreachable |-> -1, notCompatible |-> -1, dormant |-> -1]

InitWith(recs, w, nw, t) ==
    /\ records = recs
    /\ world = w
    /\ now = t
    /\ numWorkers = nw
    /\ mpc = "spawn"
    /\ spawned = 0
    /\ enqueued = 0
    /\ recordChan = <<>>
    /\ recordClosed = FALSE
    /\ resultChan = <<>>
    /\ resultClosed = FALSE
    /\ wg = 0
    /\ closer = "none"
    /\ results = [k \in 1..Len(recs) |-> ZeroResult]
    /\ index = 0
    /\ bar = 0
    /\ wk = [x \in Workers |-> IdleLocals("unborn")]
    /\ tempDirs = {}
    /\ trace = [u \in URLs |-> <<>>]
    /\ completed = <<>>
    /\ summary = NoSummary

\* the worker pool over 0..MaxItems rows and 0..MaxWorkers workers
Init ==
    \E n \in 0..MaxItems, nw \in 0..MaxWorkers, w \in PoolWorlds(URLs) :
        InitWith([k \in 1..n |-> CSVRecord(k)], w, nw, Today)

\* the list of repositories from its first and from its third entry
FairWorlds(urls) ==
    {[u \in urls |-> PoolProfiles[((u + k) % Len(PoolProfiles)) + 1]] :
        k \in {1, 3}}

\* the worker pool over those repositories
InitFair ==
    \E n \in 0..MaxItems, nw \in 0..MaxWorkers, w \in FairWorlds(URLs) :
        InitWith([k \in 1..n |-> CSVRecord(k)], w, nw, Today)

\* one row, one worker, every behaviour of the repository
InitPipeline ==
    \E p \in Profiles :
        InitWith(<<CSVRecord(1)>>, [u \in URLs |-> p], 1, Today)

\* one row, one worker, the repositories and times that decide the summary
InitSummary ==
    \E p \in SummaryProfiles, t \in Nows :
        InitWith(<<CSVRecord(1)>>, [u \in URLs |-> p], 1, t)

\* ------------------------------------------------------------------------
\* processRecord, run by worker w on the row it took from recordChan
\* ------------------------------------------------------------------------
input == <<records, world, now, numWorkers>>

mainLocals == <<mpc, spawned, enqueued>>

gathered == <<results, index, summary>>

\* (mutant) every call gets the same directory
MkdirTempShared(url, attempt) == <<0, 0>>

\* os.MkdirTemp("", "repo-*"): a name no other call gets
MkdirTemp(url, attempt) == <<url, attempt>>

\* (mutant) the directory is left on disk
RemoveAllSkipped(dirs, dir) == dirs

\* os.RemoveAll(tempDir) of a failed clone
RemoveAll(dirs, dir) == dirs \ {dir}

\* defer os.RemoveAll(repoPath), run when processRecord returns
RunDeferred(dirs, l) == IF l.deferred THEN RemoveAll(dirs, l.repoPath) ELSE dirs

\* return res: the deferred calls run and the worker holds r
Return(w, l, res) ==
    /\ wk' = [wk EXCEPT ![w] = [l EXCEPT !.pc = "send", !.res = res]]
    /\ tempDirs' = RunDeferred(tempDirs, l)

\* (mutant) a worker that reads the head of recordChan without consuming it
TakeRecordPeek(ch) == ch

\* for record := range recordChan: the receive removes the row from the channel
TakeRecord(ch) == Tail(ch)

Recv(w) ==
    /\ wk[w].pc = "recv"
    /\ recordChan # <<>>
    /\ LET record == Head(recordChan)
       IN /\ wk' = [wk EXCEPT ![w] =
                       [IdleLocals("clone") EXCEPT !.record = record,
                                                   !.attempt = 1,
                                                   !.res = NewResult(record)]]
          /\ trace' = Log(record.RepoURL, "processRecord", <<w>>)
    /\ recordChan' = TakeRecord(recordChan)
    /\ UNCHANGED <<input, mainLocals, gathered, recordClosed, resultChan,
                   resultClosed, wg, closer, bar, tempDirs, completed>>

\* (mutant) the loop goes on to the next attempt after a success too
AfterAttemptAlwaysRetry(l, repoPath, err) ==
    [l EXCEPT !.pc = IF l.attempt + 1 <= MaxAttempts THEN "clone" ELSE "cloned",
              !.attempt = l.attempt + 1, !.dir = <<>>,
              !.repoPath = repoPath, !.err = err]

\* the retry loop's body once cloneRepo returned: break on success; otherwise
\* warn, time.Sleep(2 * time.Second), attempt++ and test attempt <= 3
AfterAttempt(l, repoPath, err) ==
    IF err = <<>>
    THEN [l EXCEPT !.pc = "cloned", !.dir = <<>>, !.repoPath = repoPath,
                   !.err = err]
    ELSE [l EXCEPT !.pc = IF l.attempt + 1 <= MaxAttempts THEN "clone" ELSE "cloned",
                   !.attempt = l.attempt + 1, !.dir = <<>>,
                   !.repoPath = repoPath, !.err = err]

\* what the loop body adds to the row's history
AttemptLog(url, attempt, err) ==
    [trace EXCEPT ![url] =
        IF err = <<>>
        THEN Append(@, Event("cloneRepo", <<attempt, TRUE>>))
        ELSE @ \o <<Event("cloneRepo", <<attempt, FALSE>>),
                    Event("Sleep", <<attempt>>)>>]

\* cloneRepo, first half: os.MkdirTemp (its failure returns at once)
CloneMkdir(w) ==
    /\ wk[w].pc = "clone"
    /\ LET l   == wk[w]
           url == l.record.RepoURL
           dir == MkdirTemp(url, l.attempt)
       IN IF world[url].clone[l.attempt] = "mkdirfail"
          THEN /\ wk' = [wk EXCEPT ![w] = AfterAttempt(l, <<>>, <<"mkdir failed">>)]
               /\ trace' = AttemptLog(url, l.attempt, <<"mkdir failed">>)
               /\ UNCHANGED tempDirs
          ELSE /\ wk' = [wk EXCEPT ![w] = [l EXCEPT !.pc = "git", !.dir = dir]]
               /\ tempDirs' = tempDirs \cup {dir}
               /\ UNCHANGED trace
    /\ UNCHANGED <<input, mainLocals, gathered, recordChan, recordClosed,
                   resultChan, resultClosed, wg, closer, bar, completed>>

\* cloneRepo, second half: git clone --depth 1, removing the directory on failure
CloneGit(w) ==
    /\ wk[w].pc = "git"
    /\ LET l   == wk[w]
           url == l.record.RepoURL
       IN IF world[url].clone[l.attempt] = "gitfail"
          THEN /\ wk' = [wk EXCEPT ![w] = AfterAttempt(l, <<>>, <<"git clone failed">>)]
               /\ tempDirs' = RemoveAll(tempDirs, l.dir)
               /\ trace' = AttemptLog(url, l.attempt, <<"git clone failed">>)
          ELSE /\ wk' = [wk EXCEPT ![w] = AfterAttempt(l, l.dir, <<>>)]
               /\ trace' = AttemptLog(url, l.attempt, <<>>)
               /\ UNCHANGED tempDirs
    /\ UNCHANGED <<input, mainLocals, gathered, recordChan, recordClosed,
                   resultChan, resultClosed, wg, closer, bar, completed>>

CloneError(err) == <<"failed to clone repo">> \o err

\* (mutant) the error of the last attempt is not looked at
CloneFailedIgnored(err) == FALSE

\* if err != nil, after the loop
CloneFailed(err) == err # <<>>

\* after the loop: give up with the clone error, or defer the removal
Cloned(w) ==
    /\ wk[w].pc = "cloned"
    /\ LET l == wk[w]
       IN IF CloneFailed(l.err)
          THEN Return(w, l, [l.res EXCEPT !.Error = CloneError(l.err)])
          ELSE /\ wk' = [wk EXCEPT ![w] = [l EXCEPT !.pc = "parse", !.deferred = TRUE]]
               /\ UNCHANGED tempDirs
    /\ UNCHANGED <<input, mainLocals, gathered, recordChan, recordClosed,
                   resultChan, resultClosed, wg, closer, bar, trace, completed>>

\* parseTerraformModule(repoPath): the module's required providers, or an error
\* (tfconfig.LoadModule reads the clone; it fails when the directory is gone)
parseTerraformModule(url, repoPath, dirs) ==
    IF repoPath \in dirs /\ world[url].parseOk
    THEN [providers |-> world[url].providers, err |-> <<>>]
    ELSE [providers |-> <<>>, err |-> <<"failed to load module">>]

ParseError(err) == <<"failed to parse Terraform module">> \o err

\* (mutant) the extractor's error is not looked at
ParseFailedIgnored(err) == FALSE

\* if err != nil, after parseTerraformModule
ParseFailed(err) == err # <<>>

Parse(w) ==
    /\ wk[w].pc = "parse"
    /\ LET l == wk[w]
           p == parseTerraformModule(l.record.RepoURL, l.repoPath, tempDirs)
       IN /\ IF ParseFailed(p.err)
             THEN Return(w, l, [l.res EXCEPT !.Error = ParseError(p.err)])
             ELSE /\ wk' = [wk EXCEPT ![w] =
                               [l EXCEPT !.pc = IF p.providers = <<>> THEN "commit"
                                                ELSE "check",
                                         !.providers = p.providers,
                                         !.next = 1,
                                         !.res = [l.res EXCEPT !.Providers = p.providers]]]
                  /\ UNCHANGED tempDirs
          /\ trace' = Log(l.record.RepoURL, "parseTerraformModule", <<p.err = <<>>>>)
    /\ UNCHANGED <<input, mainLocals, gathered, recordChan, recordClosed,
                   resultChan, resultClosed, wg, closer, bar, completed>>

\* (mutant) every tracked provider gets an entry, declared or not
SetCompatibilityAll(c, name, valid) ==
    [n \in DOMAIN providersToCheck |->
        IF n = name THEN valid ELSE IF n \in DOMAIN c THEN c[n] ELSE FALSE]

\* res.Compatibility[provider.ProviderName] = valid
SetCompatibility(c, name, valid) ==
    [n \in DOMAIN c \cup {name} |-> IF n = name THEN valid ELSE c[n]]

\* the strings the evaluator is called with: the floors and the declared
\* expressions
Floors == {providersToCheck[n] : n \in DOMAIN providersToCheck}

\* checkVersionConstraints over those strings, computed once
Evaluated ==
    [c \in Floors |->
        [v \in Expressions \cup {ExprTag} |-> checkVersionConstraints(c, v)]]

\* (mutant) the declared expression is taken for the version to check
CallCheckSwapped(constraint, provider) ==
    [first |-> provider.Version, second |-> constraint,
     out |-> checkVersionConstraints(provider.Version, constraint)]

\* valid, cErr := checkVersionConstraints(constraint, provider.Version), with
\* the arguments of the call
CallCheck(constraint, provider) ==
    [first |-> constraint, second |-> provider.Version,
     out |-> Evaluated[constraint][provider.Version]]

\* fmt.Sprintf("failed to check version constraints for provider '%s': %v", ...)
CheckError(name, err) ==
    <<"failed to check version constraints for provider", name>> \o err

\* (mutant) the evaluator's error is not looked at
CheckFailedIgnored(err) == FALSE

\* if cErr != nil
CheckFailed(err) == err # <<>>

\* one iteration of: for _, provider := range providers
CheckProvider(w) ==
    /\ wk[w].pc = "check"
    /\ LET l        == wk[w]
           url      == l.record.RepoURL
           provider == l.providers[l.next]
           name     == provider.ProviderName
           after    == [l EXCEPT !.next = l.next + 1,
                                 !.pc = IF l.next + 1 <= Len(l.providers)
                                        THEN "check" ELSE "commit"]
       IN IF name \in DOMAIN providersToCheck
          THEN LET constraint == providersToCheck[name]
                   call == CallCheck(constraint, provider)
                   c == call.out
               IN /\ IF CheckFailed(c.err)
                     THEN Return(w, l, [l.res EXCEPT !.Error = CheckError(name, c.err)])
                     ELSE /\ wk' = [wk EXCEPT ![w] =
                                      [after EXCEPT !.res.Compatibility =
                                          SetCompatibility(@, name, c.valid)]]
                          /\ UNCHANGED tempDirs
                  /\ trace' = Log(url, "checkVersionConstraints",
                                  <<name, l.next, call.first, call.second,
                                    c.valid, c.err = <<>>>>)
          ELSE /\ wk' = [wk EXCEPT ![w] = after]
               /\ UNCHANGED <<tempDirs, trace>>
    /\ UNCHANGED <<input, mainLocals, gathered, recordChan, recordClosed,
                   resultChan, resultClosed, wg, closer, bar, completed>>

\* t.Format(time.RFC3339) of a commit time
FormatRFC3339(t) == <<t[1], "-", t[2], "-", t[3], "T00:00:00Z">>

\* getLastCommitInfo(ctx, repoPath): git log -1 --format=%ct|%an
getLastCommitInfo(url, repoPath, dirs) ==
    LET c == world[url].commit
    IN IF repoPath \in dirs /\ c.ok
       THEN [date |-> FormatRFC3339(c.date), author |-> c.author, err |-> <<>>]
       ELSE [date |-> <<>>, author |-> <<>>, err |-> <<"failed to get last commit">>]

\* fmt.Sprintf("%s | could not retrieve last commit info: %v", res.Error, commitErr)
CommitError(prev, err) ==
    prev \o <<" | ", "could not retrieve last commit info">> \o err

\* (mutant) a failed inspection gives up the row's other fields
OnCommitErrorAbort(res, err) ==
    [NewResult(res.CSVRecord) EXCEPT !.Error = CommitError(res.Error, err)]

\* if commitErr != nil: only the error text changes
OnCommitError(res, err) == [res EXCEPT !.Error = CommitError(res.Error, err)]

\* the last stage, then return res
Commit(w) ==
    /\ wk[w].pc = "commit"
    /\ LET l == wk[w]
           c == getLastCommitInfo(l.record.RepoURL, l.repoPath, tempDirs)
       IN /\ IF c.err # <<>>
             THEN Return(w, l, OnCommitError(l.res, c.err))
             ELSE Return(w, l, [l.res EXCEPT !.LastCommitDate = c.date,
                                             !.LastCommitAuthor = c.author])
          /\ trace' = Log(l.record.RepoURL, "getLastCommitInfo", <<c.err = <<>>>>)
    /\ UNCHANGED <<input, mainLocals, gathered, recordChan, recordClosed,
                   resultChan, resultClosed, wg, closer, bar, completed>>

\* ------------------------------------------------------------------------
\* The worker goroutine around processRecord
\* ------------------------------------------------------------------------
\* resultChan <- r (the channel holds len(records) Results)
Send(w) ==
    /\ wk[w].pc = "send"
    /\ Len(resultChan) < ResultChanCap(records)
    /\ resultChan' = Append(resultChan, wk[w].res)
    /\ completed' = Append(completed, wk[w].record.RepoURL)
    /\ wk' = [wk EXCEPT ![w].pc = "tick"]
    /\ UNCHANGED <<input, mainLocals, gathered, recordChan, recordClosed,
                   resultClosed, wg, closer, bar, tempDirs, trace>>

\* bar.Add(1), then the next row
Tick(w) ==
    /\ wk[w].pc = "tick"
    /\ bar' = bar + 1
    /\ wk' = [wk EXCEPT ![w] = IdleLocals("recv")]
    /\ UNCHANGED <<input, mainLocals, gathered, recordChan, recordClosed,
                   resultChan, resultClosed, wg, closer, tempDirs, trace,
                   completed>>

\* range recordChan ends on the closed, drained channel; defer wg.Done()
WorkerExit(w) ==
    /\ wk[w].pc = "recv"
    /\ recordChan = <<>>
    /\ recordClosed
    /\ wg' = wg - 1
    /\ wk' = [wk EXCEPT ![w].pc = "exited"]
    /\ UNCHANGED <<input, mainLocals, gathered, recordChan, recordClosed,
                   resultChan, resultClosed, closer, bar, tempDirs, trace,
                   completed>>

\* ------------------------------------------------------------------------
\* The process Action
\* ------------------------------------------------------------------------
\* for i := 0; i < numWorkers; i++ { wg.Add(1); go func() {...}() }
StartWorker ==
    /\ mpc = "spawn"
    /\ spawned < numWorkers
    /\ wg' = wg + 1
    /\ wk' = [wk EXCEPT ![spawned + 1].pc = "recv"]
    /\ spawned' = spawned + 1
    /\ UNCHANGED <<input, mpc, enqueued, gathered, recordChan, recordClosed,
                   resultChan, resultClosed, closer, bar, tempDirs, trace,
                   completed>>

WorkersStarted ==
    /\ mpc = "spawn"
    /\ ~(spawned < numWorkers)
    /\ mpc' = "enqueue"
    /\ UNCHANGED <<input, spawned, enqueued, gathered, recordChan, recordClosed,
                   resultChan, resultClosed, wg, closer, bar, wk, tempDirs,
                   trace, completed>>

\* for _, r := range records { recordChan <- r }
Enqueue ==
    /\ mpc = "enqueue"
    /\ enqueued < N
    /\ Len(recordChan) < RecordChanCap(records)
    /\ recordChan' = Append(recordChan, records[enqueued + 1])
    /\ enqueued' = enqueued + 1
    /\ UNCHANGED <<input, mpc, spawned, gathered, recordClosed, resultChan,
                   resultClosed, wg, closer, bar, wk, tempDirs, trace, completed>>

\* close(recordChan)
CloseRecordChan ==
    /\ mpc = "enqueue"
    /\ ~(enqueued < N)
    /\ recordClosed' = TRUE
    /\ mpc' = "closer"
    /\ UNCHANGED <<input, spawned, enqueued, gathered, recordChan, resultChan,
                   resultClosed, wg, closer, bar, wk, tempDirs, trace, completed>>

\* go func() { wg.Wait(); close(resultChan) }()
StartCloser ==
    /\ mpc = "closer"
    /\ closer' = "wait"
    /\ mpc' = "gather"
    /\ UNCHANGED <<input, spawned, enqueued, gathered, recordChan, recordClosed,
                   resultChan, resultClosed, wg, bar, wk, tempDirs, trace,
                   completed>>

CloseResultChan ==
    /\ closer = "wait"
    /\ wg = 0
    /\ resultClosed' = TRUE
    /\ closer' = "done"
    /\ UNCHANGED <<input, mainLocals, gathered, recordChan, recordClosed,
                   resultChan, wg, bar, wk, tempDirs, trace, completed>>

\* (mutant) the slot is the row's position in the input
NextIndexByInput(counter, r) == r.CSVRecord.RepoURL - 1

\* (mutant) the counter is never advanced
NextIndexStuck(counter, r) == 0

\* (mutant) the slots are filled from the end
NextIndexReversed(counter, r) == Len(records) - 1 - counter

\* (mutant) the value read lags one behind the counter
NextIndexLagging(counter, r) == IF counter = 0 THEN 0 ELSE counter - 1

\* idx := atomic.AddInt32(&index, 1) - 1
NextIndex(counter, r) == counter

\* for r := range resultChan { idx := ...; results[idx] = r }
Gather ==
    /\ mpc = "gather"
    /\ resultChan # <<>>
    /\ LET r   == Head(resultChan)
           idx == NextIndex(index, r)
       IN /\ index' = index + 1
          /\ IF idx < Len(results)
             THEN /\ results' = [results EXCEPT ![idx + 1] = r]
                  /\ UNCHANGED mpc
             ELSE \* index out of range
                  /\ mpc' = "panic"
                  /\ UNCHANGED results
    /\ resultChan' = Tail(resultChan)
    /\ UNCHANGED <<input, spawned, enqueued, summary, recordChan, recordClosed,
                   resultClosed, wg, closer, bar, wk, tempDirs, trace, completed>>

\* ------------------------------------------------------------------------
\* summarizeResults
\* ------------------------------------------------------------------------
IsLeap(y) == (y % 4 = 0 /\ y % 100 # 0) \/ y % 400 = 0

DaysIn(y, m) ==
    IF m \in {4, 6, 9, 11} THEN 30
    ELSE IF m = 2 THEN (IF IsLeap(y) THEN 29 ELSE 28)
    ELSE 31

\* Time.AddDate(0, months, 0) on <<year, month, day>>, normalised as time.Date does
AddMonths(t, months) ==
    LET total == t[1] * 12 + (t[2] - 1) + months
        y == total \div 12
        m == (total % 12) + 1
    IN IF t[3] <= DaysIn(y, m) THEN <<y, m, t[3]>>
       ELSE IF m = 12 THEN <<y + 1, 1, t[3] - DaysIn(y, m)>>
       ELSE <<y, m + 1, t[3] - DaysIn(y, m)>>

\* (mutant) a commit at the threshold itself counts as older
BeforeOrEqual(a, b) == a = b \/ a[1] < b[1] \/ (a[1] = b[1] /\ a[2] < b[2])
                       \/ (a[1] = b[1] /\ a[2] = b[2] /\ a[3] < b[3])

\* Time.Before
Before(a, b) ==
    \/ a[1] < b[1]
    \/ a[1] = b[1] /\ a[2] < b[2]
    \/ a[1] = b[1] /\ a[2] = b[2] /\ a[3] < b[3]

\* time.Parse(time.RFC3339, s)
ParseRFC3339(s) ==
    IF Len(s) = 6 /\ s[2] = "-" /\ s[4] = "-" /\ s[6] = "T00:00:00Z"
    THEN [ok |-> TRUE, t |-> <<s[1], s[3], s[5]>>]
    ELSE [ok |-> FALSE, t |-> <<>>]

IsUnreachable(r) == Contains(r.Error, "failed to clone repo")

IsDormant(r, sixMonthsAgo) ==
    /\ r.LastCommitDate # <<>>
    /\ LET p == ParseRFC3339(r.LastCommitDate)
       IN p.ok /\ Before(p.t, sixMonthsAgo)

IsNotCompatible(r) ==
    LET hasAzurerm == "azurerm" \in DOMAIN r.Compatibility
        hasAzapi   == "azapi" \in DOMAIN r.Compatibility
    IN \/ hasAzurerm /\ ~r.Compatibility["azurerm"]
       \/ hasAzapi /\ ~r.Compatibility["azapi"]

summarizeResults(rs, t) ==
    LET sixMonthsAgo == AddMonths(t, -6)
    IN [unreachable   |-> Cardinality({k \in 1..Len(rs) : IsUnreachable(rs[k])}),
        notCompatible |-> Cardinality({k \in 1..Len(rs) : IsNotCompatible(rs[k])}),
        dormant       |-> Cardinality({k \in 1..Len(rs) : IsDormant(rs[k], sixMonthsAgo)})]

\* range resultChan ends on the closed, drained channel; writeJSON (not
\* modelled) and summarizeResults follow
Summarize ==
    /\ mpc = "gather"
    /\ resultChan = <<>>
    /\ resultClosed
    /\ summary' = summarizeResults(results, now)
    /\ mpc' = "done"
    /\ UNCHANGED <<input, spawned, enqueued, results, index, recordChan,
                   recordClosed, resultChan, resultClosed, wg, closer, bar, wk,
                   tempDirs, trace, completed>>

\* ------------------------------------------------------------------------
\* Specifications
\* ------------------------------------------------------------------------
Next ==
    \/ StartWorker
    \/ WorkersStarted
    \/ Enqueue
    \/ CloseRecordChan
    \/ StartCloser
    \/ CloseResultChan
    \/ Gather
    \/ Summarize
    \/ \E w \in Workers :
        \/ Recv(w)
        \/ CloneMkdir(w)
        \/ CloneGit(w)
        \/ Cloned(w)
        \/ Parse(w)
        \/ CheckProvider(w)
        \/ Commit(w)
        \/ Send(w)
        \/ Tick(w)
        \/ WorkerExit(w)

Spec == Init /\ [][Next]_vars

SpecPipeline == InitPipeline /\ [][Next]_vars

SpecSummary == InitSummary /\ [][Next]_vars

\* the steps of each goroutine
MainStep ==
    \/ StartWorker
    \/ WorkersStarted
    \/ Enqueue
    \/ CloseRecordChan
    \/ StartCloser
    \/ Gather
    \/ Summarize

CloserStep == CloseResultChan

WorkerStep(w) ==
    \/ Recv(w)
    \/ CloneMkdir(w)
    \/ CloneGit(w)
    \/ Cloned(w)
    \/ Parse(w)
    \/ CheckProvider(w)
    \/ Commit(w)
    \/ Send(w)
    \/ Tick(w)
    \/ WorkerExit(w)

\* the Go scheduler runs every goroutine that can take a step; the calls of
\* processRecord (git, tfconfig) return
Fairness ==
    /\ WF_vars(MainStep)
    /\ WF_vars(CloserStep)
    /\ \A w \in Workers : WF_vars(WorkerStep(w))

SpecFair == InitFair /\ [][Next]_vars /\ Fairness

\* ------------------------------------------------------------------------
\* Properties
\* ------------------------------------------------------------------------
Done == mpc = "done"

\* number of calls of one kind made for a row
Calls(url, ev) ==
    Cardinality({i \in 1..Len(trace[url]) : trace[url][i].ev = ev})

\* the workers that took a row from recordChan
TakenBy(url) ==
    {trace[url][i].arg[1] : i \in {j \in 1..Len(trace[url]) :
                                      trace[url][j].ev = "processRecord"}}

\* the slots of the collection that hold a row's Result
SlotsOf(record) == {k \in 1..Len(results) : results[k].CSVRecord = record}

\* C1: when the dispatch/collect phase has finished, the collection holds
\* exactly N outcomes of the Item Pipeline, whatever the worker count (0
\* included): no slot is an unwritten placeholder and none is missing.
C1_EverySlotWritten ==
    Done =>
        /\ Len(results) = N
        /\ \A k \in 1..Len(results) : results[k] # ZeroResult
        /\ \A u \in 1..N : SlotsOf(records[u]) # {}

\* C2: with at least one worker every row is taken from the queue by exactly
\* one worker, processRecord runs for it exactly once and the final collection
\* holds exactly one Outcome with the row's fields.
C2_ExactlyOnce ==
    numWorkers >= 1 =>
        /\ \A u \in 1..N : Calls(u, "processRecord") <= 1
        /\ Done => \A u \in 1..N :
                      /\ Calls(u, "processRecord") = 1
                      /\ Cardinality(TakenBy(u)) = 1
                      /\ Cardinality(SlotsOf(records[u])) = 1

C2_Witness ==
    /\ Done
    /\ numWorkers >= 2
    /\ N >= 2
    /\ TakenBy(1) # TakenBy(2)
    /\ TakenBy(1) # {} /\ TakenBy(2) # {}

\* ---- what the stage results of a repository determine ----
TripleLess(a, b) ==
    \/ a[1] < b[1]
    \/ a[1] = b[1] /\ a[2] < b[2]
    \/ a[1] = b[1] /\ a[2] = b[2] /\ a[3] < b[3]

\* the meaning of each declared expression: it admits the versions v with
\* lo <= v < hi (hi = <<>>: no upper limit), or it is not an expression
Meaning(e) ==
    CASE e = ExprGe400  -> [ok |-> TRUE, lo |-> <<4, 0, 0>>, hi |-> <<>>]
      [] e = ExprPess30 -> [ok |-> TRUE, lo |-> <<3, 0, 0>>, hi |-> <<4, 0, 0>>]
      [] e = ExprPess40 -> [ok |-> TRUE, lo |-> <<4, 0, 0>>, hi |-> <<5, 0, 0>>]
      [] e = ExprPess20 -> [ok |-> TRUE, lo |-> <<2, 0, 0>>, hi |-> <<3, 0, 0>>]
      [] e = ExprRange  -> [ok |-> TRUE, lo |-> <<3, 0, 0>>, hi |-> <<5, 0, 0>>]
      [] OTHER          -> [ok |-> FALSE, lo |-> <<>>, hi |-> <<>>]

Floor(name) == IF name = "azurerm" THEN <<4, 0, 0>> ELSE <<2, 0, 0>>

Tracked(name) == name \in {"azurerm", "azapi"}

\* the floor of a tracked provider satisfies the declared expression
FloorSatisfies(name, e) ==
    LET m == Meaning(e)
    IN /\ m.ok
       /\ ~TripleLess(Floor(name), m.lo)
       /\ (m.hi = <<>> \/ TripleLess(Floor(name), m.hi))

\* the first requirement whose evaluation fails (Len + 1: none)
FirstFailing(ps) ==
    LET failing == {i \in 1..Len(ps) :
                      Tracked(ps[i].ProviderName) /\ ~Meaning(ps[i].Version).ok}
    IN IF failing = {} THEN Len(ps) + 1
       ELSE CHOOSE i \in failing : \A j \in failing : i <= j

\* the Outcome of a row whose repository behaves as p
ExpectedOutcome(record, p) ==
    LET base == NewResult(record)
        ps == p.providers
        f == FirstFailing(ps)
        names == {ps[i].ProviderName : i \in {j \in 1..(f - 1) : Tracked(ps[j].ProviderName)}}
        last(n) == CHOOSE i \in 1..(f - 1) :
                      /\ ps[i].ProviderName = n
                      /\ \A j \in (i + 1)..(f - 1) : ps[j].ProviderName # n
        compat == [n \in names |-> FloorSatisfies(n, ps[last(n)].Version)]
        evaluated == [base EXCEPT !.Providers = ps, !.Compatibility = compat]
    IN IF ~Succeeds(p.clone)
       THEN [base EXCEPT !.Error =
                <<"failed to clone repo",
                  IF p.clone[MaxAttempts] = "mkdirfail" THEN "mkdir failed"
                  ELSE "git clone failed">>]
       ELSE IF ~p.parseOk
       THEN [base EXCEPT !.Error =
                <<"failed to parse Terraform module", "failed to load module">>]
       ELSE IF f <= Len(ps)
       THEN [evaluated EXCEPT !.Error =
                <<"failed to check version constraints for provider",
                  ps[f].ProviderName, "failed to parse constraint '">>
                \o ps[f].Version \o <<"': Malformed constraint: ">>
                \o ps[f].Version]
       ELSE IF ~p.commit.ok
       THEN [evaluated EXCEPT !.Error =
                <<" | ", "could not retrieve last commit info",
                  "failed to get last commit">>]
       ELSE [evaluated EXCEPT
                !.LastCommitDate = <<p.commit.date[1], "-", p.commit.date[2], "-",
                                     p.commit.date[3], "T00:00:00Z">>,
                !.LastCommitAuthor = p.commit.author]

SeqToBag(s) ==
    [x \in {s[i] : i \in 1..Len(s)} |-> Cardinality({i \in 1..Len(s) : s[i] = x})]

\* C3: with the stage results fixed per row, the multiset of Outcomes in
\* the final collection is the one the rows' stage results determine, for
\* every worker count >= 1 and every interleaving; only the order may differ.
C3_SameMultiset ==
    (Done /\ numWorkers >= 1) =>
        SeqToBag(results) =
            SeqToBag([u \in 1..N |-> ExpectedOutcome(records[u], world[u])])

C3_Witness ==
    /\ Done
    /\ numWorkers >= 2
    /\ N >= 2
    /\ results # [u \in 1..N |-> ExpectedOutcome(records[u], world[u])]
    /\ \E k \in 1..N : results[k].Error # <<>>
    /\ \E k \in 1..N : DOMAIN results[k].Compatibility # {}

\* the Results that processRecord has returned and that exist somewhere
Returned ==
    {wk[w].res : w \in {x \in Workers : wk[x].pc = "send"}}
    \cup {resultChan[i] : i \in 1..Len(resultChan)}
    \cup {results[k] : k \in {j \in 1..Len(results) : j <= index}}

\* C9: the Outcome of a row is a function of that row's own stage results: a
\* failure of any stage of one row never changes the Outcome of another row,
\* never keeps another row from being processed and never aborts the batch.
C9_NoInterference ==
    numWorkers >= 1 =>
        /\ mpc # "panic"
        /\ \A r \in Returned :
              r = ExpectedOutcome(r.CSVRecord, world[r.CSVRecord.RepoURL])
        /\ Done => \A u \in 1..N : SlotsOf(records[u]) # {}

C9_Witness ==
    /\ Done
    /\ numWorkers >= 2
    /\ \E j, k \in 1..N :
          /\ IsUnreachable(results[j])
          /\ results[k].Error = <<>>
          /\ results[k].LastCommitDate # <<>>
          /\ DOMAIN results[k].Compatibility # {}

\* C10: the position of an Outcome in the collection is the order in which
\* the collector received it (completion order), not the row's input index.
C10_CompletionOrder ==
    /\ index <= Len(completed)
    /\ \A k \in 1..Len(completed) :
          k <= index => /\ k <= Len(results)
                        /\ results[k].CSVRecord.RepoURL = completed[k]

\* a run with two or more workers and rows whose output order differs from
\* the input order, with the same cardinality and the same rows
C10_Witness ==
    /\ Done
    /\ numWorkers >= 2
    /\ N >= 2
    /\ Len(results) = N
    /\ {results[k].CSVRecord : k \in 1..N} = {records[k] : k \in 1..N}
    /\ \E k \in 1..N : results[k].CSVRecord # records[k]

\* ---- one row through processRecord ----
\* the events of one kind in a row's history
Events(url, ev) == {i \in 1..Len(trace[url]) : trace[url][i].ev = ev}

FailedClones(url) ==
    Cardinality({i \in Events(url, "cloneRepo") : ~trace[url][i].arg[2]})

ResultsOf(url) == {r \in Returned : r.CSVRecord = CSVRecord(url)}

\* C4: if cloneRepo fails on all 3 attempts, the Outcome has no Providers, no
\* Compatibility entries, no LastCommitDate/LastCommitAuthor and an Error with
\* the tag "failed to clone repo"; the extractor, the evaluator and the
\* inspector are never run for that row.
C4_CloneExhausted ==
    \A u \in 1..N :
        FailedClones(u) = 3 =>
            /\ Calls(u, "parseTerraformModule") = 0
            /\ Calls(u, "checkVersionConstraints") = 0
            /\ Calls(u, "getLastCommitInfo") = 0
            /\ \A r \in ResultsOf(u) :
                  /\ r.Providers = <<>>
                  /\ DOMAIN r.Compatibility = {}
                  /\ r.LastCommitDate = <<>>
                  /\ r.LastCommitAuthor = <<>>
                  /\ Contains(r.Error, "failed to clone repo")

C4_Witness ==
    /\ Done
    /\ FailedClones(1) = 3
    /\ ResultsOf(1) # {}

\* acquisition, extraction and every evaluation succeeded, the inspector failed
InspectionOnlyFailed(u) ==
    /\ \E i \in Events(u, "cloneRepo") : trace[u][i].arg[2]
    /\ \E i \in Events(u, "parseTerraformModule") : trace[u][i].arg[1]
    /\ \A i \in Events(u, "checkVersionConstraints") : trace[u][i].arg[6]
    /\ \E i \in Events(u, "getLastCommitInfo") : ~trace[u][i].arg[1]

TrackedNames(ps) ==
    {ps[i].ProviderName : i \in {j \in 1..Len(ps) : Tracked(ps[j].ProviderName)}}

\* C5: if only the Activity Inspector fails, the Outcome still carries the
\* full extracted Providers list and a Compatibility entry for every tracked
\* provider among them, has no LastCommitDate/LastCommitAuthor and has a
\* non-empty Error.
C5_InspectionNonFatal ==
    \A u \in 1..N :
        InspectionOnlyFailed(u) =>
            \A r \in ResultsOf(u) :
                /\ r.Providers = world[u].providers
                /\ DOMAIN r.Compatibility = TrackedNames(world[u].providers)
                /\ r.LastCommitDate = <<>>
                /\ r.LastCommitAuthor = <<>>
                /\ r.Error # <<>>

C5_Witness ==
    /\ Done
    /\ InspectionOnlyFailed(1)
    /\ Len(results[1].Providers) = 2
    /\ DOMAIN results[1].Compatibility = {"azurerm", "azapi"}

InsideProcessRecord(w) ==
    wk[w].pc \in {"clone", "git", "cloned", "parse", "check", "commit"}

DirsOf(url) == {d \in tempDirs : d[1] = url}

\* C6: whenever processRecord has returned for a row, no scratch directory
\* of that row exists; a failed cloneRepo attempt has removed its directory
\* when it returns; at any time a row has at most one scratch directory.
C6_ScratchCleanup ==
    /\ \A d \in tempDirs :
          \E w \in Workers : InsideProcessRecord(w) /\ wk[w].record.RepoURL = d[1]
    /\ \A w \in Workers :
          (wk[w].pc = "clone" \/ (wk[w].pc = "cloned" /\ wk[w].err # <<>>)) =>
              DirsOf(wk[w].record.RepoURL) = {}
    /\ \A u \in URLs : Cardinality(DirsOf(u)) <= 1

C6_Witness ==
    /\ \E w \in Workers : wk[w].pc = "send" /\ wk[w].record.RepoURL = 1
    /\ world[1].clone[1] = "gitfail"
    /\ FailedClones(1) = 1
    /\ Calls(1, "getLastCommitInfo") = 1
    /\ tempDirs = {}

\* C7: checkVersionConstraints is called with the tracked provider's floor
\* as first argument and the declared expression as second; it fails exactly
\* on an unparsable expression and otherwise returns true iff the floor
\* satisfies the expression (4.0.0 against >=4.0.0 true, against ~>3.0 false).
C7_FloorIsCandidate ==
    \A u \in 1..N : \A i \in Events(u, "checkVersionConstraints") :
        LET a == trace[u][i].arg
            e == world[u].providers[a[2]].Version
        IN /\ Tracked(a[1])
           /\ a[1] = world[u].providers[a[2]].ProviderName
           /\ a[3] = providersToCheck[a[1]]
           /\ a[4] = e
           /\ a[6] = Meaning(e).ok
           /\ a[6] => (a[5] = FloorSatisfies(a[1], e))

C7_Witness ==
    /\ Done
    /\ \E i \in Events(1, "checkVersionConstraints") :
          LET a == trace[1][i].arg
          IN a[1] = "azurerm" /\ a[4] = ExprGe400 /\ a[5] /\ a[6]
    /\ \E i \in Events(1, "checkVersionConstraints") :
          LET a == trace[1][i].arg
          IN a[1] = "azurerm" /\ a[4] = ExprPess30 /\ ~a[5] /\ a[6]

\* C8: a row is counted non-compliant exactly when at least one tracked
\* provider has a declared expression that the floor does not satisfy, also
\* when one provider declares several expressions, in any order.  (Stated for
\* rows processed without any error, where every declared expression was
\* evaluated.)
C8_NonCompliantIffSomeUnsatisfied ==
    (Done /\ N = 1 /\ results[1].Error = <<>>) =>
        LET ps == results[1].Providers
        IN (summary.notCompatible = 1) <=>
              \E i \in 1..Len(ps) :
                  /\ Tracked(ps[i].ProviderName)
                  /\ ~FloorSatisfies(ps[i].ProviderName, ps[i].Version)

\* ---- the summary of one row ----
\* C11: summarizeResults counts an Outcome of processRecord as unreachable
\* if and only if the row's acquisition failed on all attempts; a failure of
\* the extraction, evaluation or inspection stage, or none, is never counted.
C11_UnreachableIffCloneFailed ==
    (Done /\ N = 1) => ((summary.unreachable = 1) <=> (FailedClones(1) = 3))

\* days from a fixed origin to a date; a day beyond the month's end counts on
\* into the next month
LeapYear(y) == (y % 4 = 0 /\ y % 100 # 0) \/ y % 400 = 0

DaysBeforeMonth == <<0, 31, 59, 90, 120, 151, 181, 212, 243, 273, 304, 334>>

DayNumber(t) ==
    365 * t[1] + ((t[1] - 1) \div 4) - ((t[1] - 1) \div 100) + ((t[1] - 1) \div 400)
    + DaysBeforeMonth[t[2]] + (IF t[2] > 2 /\ LeapYear(t[1]) THEN 1 ELSE 0) + t[3]

\* the day six calendar months before t: the same day of the sixth month back
SixMonthsBefore(t) ==
    LET months == t[1] * 12 + (t[2] - 1) - 6
    IN DayNumber(<<months \div 12, (months % 12) + 1, t[3]>>)

\* C12: an Outcome is counted dormant iff its LastCommitDate is non-empty and
\* strictly earlier than six calendar months before the evaluation time (one
\* day later than that is not dormant, one day earlier is; an empty timestamp
\* never is).
C12_DormantIffOlderThanSixMonths ==
    (Done /\ N = 1) =>
        ((summary.dormant = 1) <=>
            /\ results[1].LastCommitDate # <<>>
            /\ DayNumber(world[1].commit.date) < SixMonthsBefore(now))

C12_Witness ==
    /\ Done
    /\ now = <<2024, 9, 15>>
    /\ world[1].commit.date = <<2024, 3, 14>>
    /\ results[1].LastCommitDate # <<>>
    /\ summary.dormant = 1

\* ---- the retry loop ----
\* the row's acquisition was reported failed: the Error line 223 writes
CloneReported(r) == r.Error # <<>> /\ Head(r.Error) = "failed to clone repo"

\* position k of the row's cloneRepo calls (1 for the first)
RankOf(url, i) == Cardinality({j \in Events(url, "cloneRepo") : j <= i})

\* C13: for each row processRecord makes at least 1 and at most 3 cloneRepo
\* attempts, one after another (the k-th call is attempt k and a call begins
\* only after the k-1 before it returned); no attempt follows a successful
\* one; acquisition failure is reported only if all 3 attempts failed.
C13_AttemptsBounded ==
    \A u \in 1..N :
        /\ Calls(u, "cloneRepo") <= 3
        /\ \A i \in Events(u, "cloneRepo") : trace[u][i].arg[1] = RankOf(u, i)
        /\ \A i, j \in Events(u, "cloneRepo") : i < j => ~trace[u][i].arg[2]
        /\ \A w \in Workers :
              (wk[w].pc \in {"clone", "git"} /\ wk[w].record.RepoURL = u) =>
                  wk[w].attempt = Calls(u, "cloneRepo") + 1
        /\ \A r \in ResultsOf(u) :
              /\ Calls(u, "cloneRepo") >= 1
              /\ CloneReported(r) <=> FailedClones(u) = 3

C13_Witness ==
    /\ Done
    /\ Calls(1, "cloneRepo") = 2
    /\ FailedClones(1) = 1
    /\ ~CloneReported(results[1])

\* C14: the 2-second sleep happens only between attempts: a sleep follows a
\* failed attempt only when another attempt follows it, so a row whose 3
\* attempts all fail sleeps exactly twice, and no sleep follows the final
\* failed attempt or a successful attempt.
C14_SleepOnlyBetweenAttempts ==
    \A u \in 1..N :
        ResultsOf(u) # {} =>
            /\ \A i \in Events(u, "Sleep") :
                  /\ \E j \in Events(u, "cloneRepo") : j > i
                  /\ i > 1 /\ trace[u][i - 1].ev = "cloneRepo" /\ ~trace[u][i - 1].arg[2]
            /\ FailedClones(u) = 3 => Calls(u, "Sleep") = 2

\* ---- the stages of one row ----
\* the position of a call in the pipeline
StageRank(ev) ==
    CASE ev = "processRecord" -> 0
      [] ev \in {"cloneRepo", "Sleep"} -> 1
      [] ev = "parseTerraformModule" -> 2
      [] ev = "checkVersionConstraints" -> 3
      [] ev = "getLastCommitInfo" -> 4

ParseFailedFor(u) == \E i \in Events(u, "parseTerraformModule") : ~trace[u][i].arg[1]

\* C15: within one row the stages run in the order acquire, extract,
\* evaluate, inspect, each starting only after the previous one succeeded; if
\* the extractor fails, the Outcome has the Error tag "failed to parse
\* Terraform module", no Providers, no Compatibility entries, no
\* LastCommitDate/LastCommitAuthor, and neither the evaluator nor the
\* inspector runs.
C15_StagesInOrder ==
    \A u \in 1..N :
        /\ \A i, j \in 1..Len(trace[u]) :
              i < j => StageRank(trace[u][i].ev) <= StageRank(trace[u][j].ev)
        /\ Calls(u, "parseTerraformModule") <= 1
        /\ Calls(u, "getLastCommitInfo") <= 1
        /\ \A i \in Events(u, "parseTerraformModule") :
              /\ trace[u][i - 1].ev = "cloneRepo"
              /\ trace[u][i - 1].arg[2]
        /\ \A i \in Events(u, "checkVersionConstraints") :
              /\ \E j \in Events(u, "parseTerraformModule") : trace[u][j].arg[1]
              /\ \A j \in Events(u, "checkVersionConstraints") :
                    j < i => trace[u][j].arg[6]
        /\ \A i \in Events(u, "getLastCommitInfo") :
              /\ \E j \in Events(u, "parseTerraformModule") : trace[u][j].arg[1]
              /\ \A j \in Events(u, "checkVersionConstraints") : trace[u][j].arg[6]
        /\ ParseFailedFor(u) =>
              /\ Calls(u, "checkVersionConstraints") = 0
              /\ Calls(u, "getLastCommitInfo") = 0
              /\ \A r \in ResultsOf(u) :
                    /\ r.Error # <<>>
                    /\ Head(r.Error) = "failed to parse Terraform module"
                    /\ r.Providers = <<>>
                    /\ DOMAIN r.Compatibility = {}
                    /\ r.LastCommitDate = <<>>
                    /\ r.LastCommitAuthor = <<>>

C15_Witness ==
    /\ Done
    /\ ParseFailedFor(1)
    /\ Head(results[1].Error) = "failed to parse Terraform module"

\* the calls of the evaluator that returned an error
FailedChecks(u) == {i \in Events(u, "checkVersionConstraints") : ~trace[u][i].arg[6]}

\* C16: if the evaluator fails for a tracked requirement, processRecord sets
\* Error and returns at once: no later requirement is evaluated, the inspector
\* is not run, LastCommitDate/LastCommitAuthor are empty, and Compatibility
\* has entries only for the requirements evaluated before the failing one.
C16_EvaluatorFailureAborts ==
    \A u \in 1..N :
        \A i \in FailedChecks(u) :
            /\ \A j \in Events(u, "checkVersionConstraints") : j <= i
            /\ i = Len(trace[u])
            /\ Calls(u, "getLastCommitInfo") = 0
            /\ \A r \in ResultsOf(u) :
                  /\ r.Error # <<>>
                  /\ Head(r.Error) = "failed to check version constraints for provider"
                  /\ r.LastCommitDate = <<>>
                  /\ r.LastCommitAuthor = <<>>
                  /\ DOMAIN r.Compatibility =
                        TrackedNames(SubSeq(world[u].providers, 1,
                                            trace[u][i].arg[2] - 1))

C16_Witness ==
    /\ Done
    /\ \E i \in FailedChecks(1) : trace[1][i].arg[2] = 2
    /\ DOMAIN results[1].Compatibility # {}
    /\ results[1].LastCommitDate = <<>>

\* the evaluation stage of row u ran to its end
EvaluationSucceeded(u) == Calls(u, "getLastCommitInfo") = 1

NamesOf(ps) == {ps[i].ProviderName : i \in 1..Len(ps)}

\* C17: in every Outcome the keys of Compatibility are a subset of the
\* tracked names (azurerm, azapi) that occur in the Outcome's Providers; after
\* a fully successful evaluation stage the key set equals that intersection;
\* a provider that is not tracked or not declared never has an entry.
C17_CompatibilityKeys ==
    \A u \in 1..N :
        \A r \in ResultsOf(u) :
            /\ DOMAIN r.Compatibility \subseteq
                  (DOMAIN providersToCheck \cap NamesOf(r.Providers))
            /\ DOMAIN providersToCheck = {"azurerm", "azapi"}
            /\ EvaluationSucceeded(u) =>
                  DOMAIN r.Compatibility =
                      DOMAIN providersToCheck \cap NamesOf(r.Providers)

C17_Witness ==
    /\ Done
    /\ EvaluationSucceeded(1)
    /\ NamesOf(results[1].Providers) = {"random", "azurerm"}
    /\ DOMAIN results[1].Compatibility = {"azurerm"}

\* C18: when the inspector fails and the Outcome has no error text yet (it
\* never has one when the inspector runs), Error is the inspection-failure
\* description itself, with no separator or remnant of the empty prior error
\* before it.
C18_InspectionErrorText ==
    \A u \in 1..N :
        (\E i \in Events(u, "getLastCommitInfo") : ~trace[u][i].arg[1]) =>
            \A r \in ResultsOf(u) :
                /\ r.Error # <<>>
                /\ Head(r.Error) = "could not retrieve last commit info"

\* ---- progress and the collection ----
Ticking == {w \in Workers : wk[w].pc = "tick"}

\* C19: each worker emits one progress tick per row it completes, after the
\* row's Outcome was handed to resultChan; at every moment the ticks emitted
\* are at most the Outcomes handed over, and once the collector has finished
\* gathering the number of ticks is N.
C19_OneTickPerCompletion ==
    /\ bar <= Len(completed)
    /\ bar + Cardinality(Ticking) = Len(completed)
    /\ Done => bar = N

\* C20: only the collector writes results; each write goes to the slot the
\* counter gave, that slot lies in 0..N-1 and was not written before, no other
\* slot changes, and the counter never exceeds N.
C20_SingleWriter ==
    [][ /\ index' <= N
        /\ results' # results =>
              /\ mpc = "gather"
              /\ wk' = wk
              /\ index < N
              /\ index' = index + 1
              /\ results[index + 1] = ZeroResult
              /\ results'[index + 1] # ZeroResult
              /\ \A k \in 1..N : k # index + 1 => results'[k] = results[k]
      ]_vars

C20_Witness ==
    /\ Done
    /\ numWorkers = 2
    /\ N = 2
    /\ index = N
    /\ \A k \in 1..N : results[k] # ZeroResult
    /\ results[1].CSVRecord.RepoURL = 2
    /\ results[2].CSVRecord.RepoURL = 1

\* ---- termination ----
Exited(w) == wk[w].pc = "exited"

\* nothing in the run is blocked or out of order
NoBlocking ==
    /\ mpc # "panic"
    /\ (mpc = "enqueue" /\ enqueued < N) => Len(recordChan) < RecordChanCap(records)
    /\ \A w \in Workers : wk[w].pc = "send" => Len(resultChan) < ResultChanCap(records)
    /\ \A w \in Workers : Exited(w) => recordClosed /\ recordChan = <<>>
    /\ resultClosed =>
          /\ spawned = numWorkers
          /\ \A w \in 1..numWorkers : Exited(w)
    /\ Done =>
          /\ resultClosed
          /\ enqueued = N
          /\ recordChan = <<>>
          /\ resultChan = <<>>
          /\ index = N

\* C21: if every stage call returns, the run terminates without deadlock for
\* any N >= 0 and any worker count >= 1: enqueueing never blocks, no worker
\* blocks on sending its Result, the queue is drained, all workers exit after
\* the queue is closed, resultChan is closed only after all workers exited,
\* and the collector then finishes.
C21_Terminates ==
    /\ [](numWorkers >= 1 => NoBlocking)
    /\ [](numWorkers >= 1 => <>Done)

C21_Witness ==
    /\ Done
    /\ numWorkers = 2
    /\ N = 1
    /\ \A w \in 1..2 : Exited(w)
    /\ resultClosed
    /\ Calls(1, "processRecord") = 1

\* ---- one worker ----
\* C22: with exactly one worker the final collection is in input order: the
\* Outcome at position i is the Outcome of the i-th input row, for every i.
C22_OneWorkerInputOrder ==
    numWorkers = 1 =>
        /\ \A k \in 1..N : k <= index => results[k].CSVRecord = records[k]
        /\ Done =>
              /\ index = N
              /\ \A i \in 1..N : results[i] = ExpectedOutcome(records[i], world[i])

C22_Witness ==
    /\ Done
    /\ numWorkers = 1
    /\ N = 2
    /\ results[1] = ExpectedOutcome(records[1], world[1])
    /\ results[2] = ExpectedOutcome(records[2], world[2])
    /\ results[1] # results[2]

\* ---- the categories of one row ----
\* C23: for an Outcome of processRecord the unreachable category is disjoint
\* from the other two (an Outcome counted unreachable has no timestamp and no
\* Compatibility entries, so it is never counted dormant or non-compliant);
\* dormant and non-compliant are counted independently, once each.
C23_UnreachableDisjoint ==
    (Done /\ N = 1) =>
        /\ summary.unreachable = 1 =>
              /\ results[1].LastCommitDate = <<>>
              /\ DOMAIN results[1].Compatibility = {}
              /\ summary.dormant = 0
              /\ summary.notCompatible = 0
        /\ summary.dormant \in {0, 1}
        /\ summary.notCompatible \in {0, 1}
        /\ summary.notCompatible = 1 <=>
              \E n \in DOMAIN results[1].Compatibility : ~results[1].Compatibility[n]

====
